---------------------------- MODULE Spec2Model ----------------------------
(***************************************************************************)
(* cc-wrapped: the usage reducer (src/src/collector.ts,                    *)
(* collectClaudeUsageSummary) and the stats merger (src/src/stats.ts,      *)
(* calculateStats, calculateStreaks, countStreakBackwards).                *)
(*                                                                         *)
(* Representation.                                                         *)
(*   - An instant (a JS Date) is a whole number of hours since             *)
(*     1970-01-01T00:00Z; the code's 24*60*60*1000 ms is DayLen hours.     *)
(*   - A date key "YYYY-MM-DD" is the tuple <<y, m, d>>; the string order  *)
(*     of zero-padded keys is the lexicographic order of the tuples.       *)
(*   - A JS Map is a sequence of [k, v] entries in insertion order.        *)
(*   - An optional JSON field is <<>> (absent or of the wrong type) or     *)
(*     <<x>>; an identifier that is absent or falsy is "".                 *)
(*   - Money is a whole number of micro-dollars.                           *)
(***************************************************************************)
EXTENDS Integers, Sequences, FiniteSets, TLC

VARIABLES
  zone,        \* the process's local time zone
  now,         \* Date.now(), fixed for the run
  year,        \* the requested year
  cache,       \* the parsed stats-cache.json
  files,       \* content of the .jsonl files: file id -> sequence of lines
  roots,       \* getClaudeProjectRoots(): per root, the listing of file ids
  env,         \* what else the run meets: arguments, the cache file's content, failing paths
  dirs,        \* CLAUDE_CONFIG_DIR and which base directories hold what
  pc,          \* "start" | "roots" | "scan" | "merge" | "done" | "threw" | "exit"
  paths,       \* the project roots the collector resolved and the data path the loader did
  thrown,      \* the error calculateStats rejected with, "" when none
  exitCode,    \* the code process.exit was called with, if it was
  imageStarted,\* generateImage was called
  fi, li,      \* the file being read (its place in the scan order) and the next line; li = 0: not open
  acc,         \* the accumulators of collectClaudeUsageSummary
  usage,       \* the ClaudeUsageSummary it returned
  snap         \* the ClaudeCodeStats calculateStats returned

inputs == <<zone, now, year, cache, files, roots, env, dirs>>

vars == <<inputs, pc, paths, thrown, exitCode, imageStarted, fi, li, acc, usage, snap>>

-----------------------------------------------------------------------------
(* Generic helpers *)

Max(a, b) == IF a >= b THEN a ELSE b

Range(s) == {s[i] : i \in 1..Len(s)}

RECURSIVE SumSeq(_)
SumSeq(s) == IF s = <<>> THEN 0 ELSE Head(s) + SumSeq(Tail(s))

RECURSIVE SetSum(_, _)
\* sum of f(x) over the finite set S, f given as a function
SetSum(f, S) ==
  IF S = {} THEN 0
  ELSE LET x == CHOOSE y \in S : TRUE IN f[x] + SetSum(f, S \ {x})

\* JS Map, insertion ordered
MapHas(m, k) == \E i \in 1..Len(m) : m[i].k = k

MapGet(m, k) == LET i == CHOOSE j \in 1..Len(m) : m[j].k = k IN m[i].v

\* m.get(k) || 0
MapGetOr0(m, k) == IF MapHas(m, k) THEN MapGet(m, k) ELSE 0

\* m.set(k, v): an existing key keeps its place
MapSet(m, k, v) ==
  IF MapHas(m, k)
  THEN [i \in 1..Len(m) |-> IF m[i].k = k THEN [k |-> k, v |-> v] ELSE m[i]]
  ELSE Append(m, [k |-> k, v |-> v])

MapKeys(m) == {m[i].k : i \in 1..Len(m)}

MapValues(m) == [i \in 1..Len(m) |-> m[i].v]

-----------------------------------------------------------------------------
(* Calendar and local time: what Date does for the code *)

DayLen == 24

YearRange == 2023..2026

IsLeap(y) == (y % 4 = 0 /\ y % 100 # 0) \/ y % 400 = 0

DaysInMonth(y, m) ==
  CASE m = 2 -> IF IsLeap(y) THEN 29 ELSE 28
    [] m \in {4, 6, 9, 11} -> 30
    [] OTHER -> 31

\* days from 1970-01-01 to y-01-01
DaysBeforeYear(y) ==
  365 * (y - 1970) + ((y - 1969) \div 4) - ((y - 1901) \div 100) + ((y - 1601) \div 400)

RECURSIVE DaysBeforeMonth(_, _)
DaysBeforeMonth(y, m) ==
  IF m = 1 THEN 0 ELSE DaysBeforeMonth(y, m - 1) + DaysInMonth(y, m - 1)

\* day number of the date key <<y, m, d>>
DayNumber(key) == DaysBeforeYear(key[1]) + DaysBeforeMonth(key[1], key[2]) + key[3] - 1

\* the date key of a day number
DateOfDay(n) ==
  LET y == CHOOSE yy \in YearRange : DaysBeforeYear(yy) <= n /\ n < DaysBeforeYear(yy + 1)
      r == n - DaysBeforeYear(y)
      m == CHOOSE mm \in 1..12 :
             DaysBeforeMonth(y, mm) <= r /\ r < DaysBeforeMonth(y, mm) + DaysInMonth(y, mm)
  IN <<y, m, r - DaysBeforeMonth(y, m) + 1>>

\* new Date("YYYY-MM-DD"): a date-only string is UTC midnight
ParseDateKey(key) == DayNumber(key) * DayLen

\* the zone's offset from UTC at instant t (daylight saving between dstFrom and dstTo)
Offset(z, t) == IF z.dst /\ z.dstFrom <= t /\ t < z.dstTo THEN z.std + 1 ELSE z.std

\* the local calendar day an instant falls on
LocalDay(z, t) == (t + Offset(z, t)) \div DayLen

\* Date.prototype.getFullYear
GetFullYear(z, t) == DateOfDay(LocalDay(z, t))[1]

\* Date.prototype.getDay: 1970-01-01 was a Thursday
GetDay(z, t) == (LocalDay(z, t) + 4) % 7

\* formatDateKey: the local date as "YYYY-MM-DD"
formatDateKey(z, t) == DateOfDay(LocalDay(z, t))

\* key1 < key2 as strings
KeyLess(a, b) ==
  \/ a[1] < b[1]
  \/ a[1] = b[1] /\ a[2] < b[2]
  \/ a[1] = b[1] /\ a[2] = b[2] /\ a[3] < b[3]

-----------------------------------------------------------------------------
(* collector.ts: the usage reducer *)

Present(x) == <<x>>

Absent == <<>>

\* an entry.timestamp: absent or of another type, a string Date cannot parse, or an instant
TsMissing == [kind |-> "missing", at |-> 0]

TsInvalid == [kind |-> "invalid", at |-> 0]

TsAt(t) == [kind |-> "instant", at |-> t]

\* String.prototype.trim on the model names the model uses
Trim(s) == IF s \in {"", " "} THEN "" ELSE s

\* per-token prices by model; a model outside the table has no resolvable price
PriceTable ==
  [m \in {"claude-a"} |-> [input |-> 3, output |-> 15, cacheCreate |-> 4, cacheRead |-> 1]]

getModelPricing(model) ==
  IF model \in DOMAIN PriceTable THEN Present(PriceTable[model]) ELSE Absent

calculateCostUSD(tokens, pricing) ==
  tokens.inputTokens * pricing.input + tokens.outputTokens * pricing.output
    + tokens.cacheCreationTokens * pricing.cacheCreate
    + tokens.cachedInputTokens * pricing.cacheRead

ensureNumber(value) == IF Len(value) = 1 THEN value[1] ELSE 0

\* null is Absent; an absent, empty or otherwise falsy identifier is ""
createUniqueHash(entry) ==
  IF entry.mid = "" \/ entry.rid = "" THEN Absent
  ELSE Present(entry.mid \o ":" \o entry.rid)

\* the accumulators of a run, and the models getModelPricing was called for, in order
InitAcc ==
  [ modelTokenTotals |-> <<>>,
    pricingCache |-> <<>>,
    lookups |-> <<>>,
    processedHashes |-> {},
    dailyActivity |-> <<>>,
    sessionIds |-> {},
    totalInputTokens |-> 0,
    totalOutputTokens |-> 0,
    totalCacheCreationTokens |-> 0,
    totalCacheReadTokens |-> 0,
    totalTokens |-> 0,
    totalCostUSD |-> 0,
    firstTimestamp |-> Absent,
    totalMessages |-> 0 ]

\* AddUsage that keeps no memo of a model whose price did not resolve
AddUsageMemoKnown(a, entry, hasCost) ==
  IF entry.usage = Absent THEN a
  ELSE
    LET u == entry.usage[1]
        input == ensureNumber(u.input_tokens)
        output == ensureNumber(u.output_tokens)
        cacheCreate == ensureNumber(u.cache_creation_input_tokens)
        cacheRead == ensureNumber(u.cache_read_input_tokens)
        entryTotal == input + output + cacheCreate + cacheRead
        a1 == [a EXCEPT !.totalInputTokens = @ + input,
                        !.totalOutputTokens = @ + output,
                        !.totalCacheCreationTokens = @ + cacheCreate,
                        !.totalCacheReadTokens = @ + cacheRead,
                        !.totalTokens = @ + entryTotal]
    IN
    IF entry.model = Absent \/ Trim(entry.model[1]) = "" THEN a1
    ELSE
      LET model == entry.model[1]
          a2 == [a1 EXCEPT !.modelTokenTotals =
                   MapSet(@, model, MapGetOr0(@, model) + entryTotal)]
      IN
      IF hasCost \/ entryTotal <= 0 THEN a2
      ELSE
        LET known == MapHas(a2.pricingCache, model)
            pricing == IF known THEN MapGet(a2.pricingCache, model)
                       ELSE getModelPricing(model)
            a3 == IF known THEN a2
                  ELSE [a2 EXCEPT !.pricingCache =
                                     IF pricing = Absent THEN @ ELSE MapSet(@, model, pricing),
                                  !.lookups = Append(@, model)]
        IN
        IF pricing = Absent THEN a3
        ELSE [a3 EXCEPT !.totalCostUSD = @ + calculateCostUSD(
                [inputTokens |-> input, outputTokens |-> output,
                 cacheCreationTokens |-> cacheCreate, cachedInputTokens |-> cacheRead],
                pricing[1])]

\* AddUsage that estimates a cost for a record that carries its own
AddUsageBothCosts(a, entry, hasCost) ==
  IF entry.usage = Absent THEN a
  ELSE
    LET u == entry.usage[1]
        input == ensureNumber(u.input_tokens)
        output == ensureNumber(u.output_tokens)
        cacheCreate == ensureNumber(u.cache_creation_input_tokens)
        cacheRead == ensureNumber(u.cache_read_input_tokens)
        entryTotal == input + output + cacheCreate + cacheRead
        a1 == [a EXCEPT !.totalInputTokens = @ + input,
                        !.totalOutputTokens = @ + output,
                        !.totalCacheCreationTokens = @ + cacheCreate,
                        !.totalCacheReadTokens = @ + cacheRead,
                        !.totalTokens = @ + entryTotal]
    IN
    IF entry.model = Absent \/ Trim(entry.model[1]) = "" THEN a1
    ELSE
      LET model == entry.model[1]
          a2 == [a1 EXCEPT !.modelTokenTotals =
                   MapSet(@, model, MapGetOr0(@, model) + entryTotal)]
      IN
      IF entryTotal <= 0 THEN a2
      ELSE
        LET known == MapHas(a2.pricingCache, model)
            pricing == IF known THEN MapGet(a2.pricingCache, model)
                       ELSE getModelPricing(model)
            a3 == IF known THEN a2
                  ELSE [a2 EXCEPT !.pricingCache = MapSet(@, model, pricing),
                                  !.lookups = Append(@, model)]
        IN
        IF pricing = Absent THEN a3
        ELSE [a3 EXCEPT !.totalCostUSD = @ + calculateCostUSD(
                [inputTokens |-> input, outputTokens |-> output,
                 cacheCreationTokens |-> cacheCreate, cachedInputTokens |-> cacheRead],
                pricing[1])]

\* lines 519-555: the usage block of an accepted record
AddUsage(a, entry, hasCost) ==
  IF entry.usage = Absent THEN a
  ELSE
    LET u == entry.usage[1]
        input == ensureNumber(u.input_tokens)
        output == ensureNumber(u.output_tokens)
        cacheCreate == ensureNumber(u.cache_creation_input_tokens)
        cacheRead == ensureNumber(u.cache_read_input_tokens)
        entryTotal == input + output + cacheCreate + cacheRead
        a1 == [a EXCEPT !.totalInputTokens = @ + input,
                        !.totalOutputTokens = @ + output,
                        !.totalCacheCreationTokens = @ + cacheCreate,
                        !.totalCacheReadTokens = @ + cacheRead,
                        !.totalTokens = @ + entryTotal]
    IN
    IF entry.model = Absent \/ Trim(entry.model[1]) = "" THEN a1
    ELSE
      LET model == entry.model[1]
          a2 == [a1 EXCEPT !.modelTokenTotals =
                   MapSet(@, model, MapGetOr0(@, model) + entryTotal)]
      IN
      IF hasCost \/ entryTotal <= 0 THEN a2
      ELSE
        LET known == MapHas(a2.pricingCache, model)
            pricing == IF known THEN MapGet(a2.pricingCache, model)
                       ELSE getModelPricing(model)
            a3 == IF known THEN a2
                  ELSE [a2 EXCEPT !.pricingCache = MapSet(@, model, pricing),
                                  !.lookups = Append(@, model)]
        IN
        IF pricing = Absent THEN a3
        ELSE [a3 EXCEPT !.totalCostUSD = @ + calculateCostUSD(
                [inputTokens |-> input, outputTokens |-> output,
                 cacheCreationTokens |-> cacheCreate, cachedInputTokens |-> cacheRead],
                pricing[1])]

\* AcceptRecord that takes a record of any year
AcceptRecordAnyYear(a, entry, z, yr) ==
  IF entry.ts.kind # "instant" THEN a
  ELSE
    LET entryDate == entry.ts.at
        dateKey == formatDateKey(z, entryDate)
        hasCost == entry.costUSD # Absent
        a1 == [a EXCEPT
                 !.firstTimestamp =
                    IF @ = Absent \/ entryDate < @[1] THEN Present(entryDate) ELSE @,
                 !.dailyActivity = MapSet(@, dateKey, MapGetOr0(@, dateKey) + 1),
                 !.totalMessages = @ + 1,
                 !.sessionIds = IF entry.sid # "" THEN @ \cup {entry.sid} ELSE @,
                 !.totalCostUSD = IF hasCost THEN @ + entry.costUSD[1] ELSE @]
    IN AddUsage(a1, entry, hasCost)

\* lines 489-517: the timestamp test and the per-record counters
AcceptRecord(a, entry, z, yr) ==
  IF entry.ts.kind = "missing" THEN a
  ELSE IF entry.ts.kind = "invalid" \/ GetFullYear(z, entry.ts.at) # yr THEN a
  ELSE
    LET entryDate == entry.ts.at
        dateKey == formatDateKey(z, entryDate)
        hasCost == entry.costUSD # Absent
        a1 == [a EXCEPT
                 !.firstTimestamp =
                    IF @ = Absent \/ entryDate < @[1] THEN Present(entryDate) ELSE @,
                 !.dailyActivity = MapSet(@, dateKey, MapGetOr0(@, dateKey) + 1),
                 !.totalMessages = @ + 1,
                 !.sessionIds = IF entry.sid # "" THEN @ \cup {entry.sid} ELSE @,
                 !.totalCostUSD = IF hasCost THEN @ + entry.costUSD[1] ELSE @]
    IN AddUsage(a1, entry, hasCost)

\* Dedup that records the identity key only once the timestamp is found valid
DedupWhenAccepted(a, entry, z, yr) ==
  LET uniqueHash == createUniqueHash(entry) IN
  IF uniqueHash # Absent /\ uniqueHash[1] \in a.processedHashes THEN a
  ELSE IF entry.ts.kind # "instant" THEN a
  ELSE IF GetFullYear(z, entry.ts.at) # yr THEN a
  ELSE
    LET a1 == IF uniqueHash # Absent
              THEN [a EXCEPT !.processedHashes = @ \cup {uniqueHash[1]}]
              ELSE a
    IN AcceptRecord(a1, entry, z, yr)

\* Dedup that tests the identity key and never records it
DedupForgets(a, entry, z, yr) ==
  LET uniqueHash == createUniqueHash(entry) IN
  IF uniqueHash # Absent /\ uniqueHash[1] \in a.processedHashes THEN a
  ELSE AcceptRecord(a, entry, z, yr)

\* lines 481-487: the identity key is tested and recorded
Dedup(a, entry, z, yr) ==
  LET uniqueHash == createUniqueHash(entry) IN
  IF uniqueHash # Absent /\ uniqueHash[1] \in a.processedHashes THEN a
  ELSE
    LET a1 == IF uniqueHash # Absent
              THEN [a EXCEPT !.processedHashes = @ \cup {uniqueHash[1]}]
              ELSE a
    IN AcceptRecord(a1, entry, z, yr)

\* lines 469-556: the body of the loop over a file's lines
ProcessLine(a, line, z, yr) ==
  IF line.kind # "object" THEN a ELSE Dedup(a, line, z, yr)

\* Summary whose totalTokens leaves the cache tokens out
SummaryInputOutput(a) ==
  [ totalInputTokens |-> a.totalInputTokens,
    totalOutputTokens |-> a.totalOutputTokens,
    totalCacheCreationTokens |-> a.totalCacheCreationTokens,
    totalCacheReadTokens |-> a.totalCacheReadTokens,
    totalTokens |-> a.totalInputTokens + a.totalOutputTokens,
    totalCostUSD |-> a.totalCostUSD,
    modelTokenTotals |-> a.modelTokenTotals,
    firstTimestamp |-> a.firstTimestamp,
    dailyActivity |-> a.dailyActivity,
    totalMessages |-> a.totalMessages,
    totalSessions |-> Cardinality(a.sessionIds) ]

\* lines 560-572
Summary(a) ==
  [ totalInputTokens |-> a.totalInputTokens,
    totalOutputTokens |-> a.totalOutputTokens,
    totalCacheCreationTokens |-> a.totalCacheCreationTokens,
    totalCacheReadTokens |-> a.totalCacheReadTokens,
    totalTokens |-> a.totalTokens,
    totalCostUSD |-> a.totalCostUSD,
    modelTokenTotals |-> a.modelTokenTotals,
    firstTimestamp |-> a.firstTimestamp,
    dailyActivity |-> a.dailyActivity,
    totalMessages |-> a.totalMessages,
    totalSessions |-> Cardinality(a.sessionIds) ]

RECURSIVE Flatten(_)
Flatten(ss) == IF ss = <<>> THEN <<>> ELSE Head(ss) \o Flatten(Tail(ss))

\* the first root whose listing (readdir, in listJsonlFiles) fails; Len(roots) + 1 when none
FirstUnlistable ==
  IF env.unlistable = {} THEN Len(roots) + 1
  ELSE CHOOSE r \in env.unlistable : \A q \in env.unlistable : r <= q

\* the files in the order the two nested loops visit them, up to a listing that fails
ScanOrder == Flatten(SubSeq(roots, 1, FirstUnlistable - 1))

\* lines 355-356: the two default base directories
CLAUDE_CONFIG_PATH == "~/.config/claude"

CLAUDE_DATA_PATH == "~/.claude"

\* lines 362-379: the base directory of stats-cache.json, Absent for null. d.override is
\* the value of CLAUDE_CONFIG_DIR as the sequence of its comma-separated entries, Absent
\* when it is unset or blank; the whole value is a path of its own, which is the entry
\* when there is exactly one and names no directory otherwise. d.marker is the set of
\* base directories that hold stats-cache.json.
resolveClaudeDataPath(d) ==
  IF d.override # Absent /\ Len(d.override[1]) = 1 /\ d.override[1][1] \in d.marker
  THEN Present(d.override[1][1])
  ELSE IF CLAUDE_CONFIG_PATH \in d.marker THEN Present(CLAUDE_CONFIG_PATH)
  ELSE IF CLAUDE_DATA_PATH \in d.marker THEN Present(CLAUDE_DATA_PATH)
  ELSE Absent

\* lines 590-596 and 603-611: of the bases in order, those with a projects directory
\* (d.projects), each once
RECURSIVE ProjectRootsOf(_, _, _)
ProjectRootsOf(bases, d, seen) ==
  IF bases = <<>> THEN <<>>
  ELSE IF Head(bases) \in d.projects /\ Head(bases) \notin seen
       THEN <<Head(bases)>> \o ProjectRootsOf(Tail(bases), d, seen \cup {Head(bases)})
       ELSE ProjectRootsOf(Tail(bases), d, seen)

\* lines 583-614: the bases whose projects directory is scanned. With the variable set
\* the defaults are not consulted, whatever its entries yield.
getClaudeProjectRoots(d) ==
  IF d.override # Absent
  THEN ProjectRootsOf(d.override[1], d, {})
  ELSE ProjectRootsOf(<<CLAUDE_CONFIG_PATH, CLAUDE_DATA_PATH>>, d, {})

\* lines 395-397
checkClaudeDataExists(d) == resolveClaudeDataPath(d) # Absent

\* lines 399-401: typeof data === "object" && data !== null, which an array satisfies
isValidStatsCache(kind) == kind \in {"object", "array"}

\* lines 403-412: the error loadClaudeStatsCache throws for a cache file, "" when it returns
loadClaudeStatsCache(d, e) ==
  IF resolveClaudeDataPath(d) = Absent THEN "Claude data not found"
  ELSE IF e.cacheFile = "garbage" THEN "SyntaxError"
  ELSE IF ~ isValidStatsCache(e.cacheFile) THEN "Invalid stats-cache.json format"
  ELSE ""

-----------------------------------------------------------------------------
(* stats.ts: the stats merger *)

\* new Date(entryDate).getFullYear() of a "YYYY-MM-DD" key
KeyYear(z, key) == GetFullYear(z, ParseDateKey(key))

\* new Date(entryDate).getDay()
KeyWeekday(z, key) == GetDay(z, ParseDateKey(key))

ZeroWeek == [w \in 1..7 |-> 0]

NoActivity ==
  [ dailyActivity |-> <<>>, weekdayCounts |-> ZeroWeek,
    totalMessages |-> 0, totalSessions |-> 0, totalToolCalls |-> 0 ]

\* lines 26-30 and 41-47: one kept entry
AddDay(st, z, entryDate, messageCount) ==
  [st EXCEPT !.dailyActivity = MapSet(@, entryDate, messageCount),
             !.totalMessages = @ + messageCount,
             !.weekdayCounts[KeyWeekday(z, entryDate) + 1] = @ + messageCount]

RECURSIVE LiveLoop(_, _, _, _, _)
\* lines 23-31: the entries of the usage summary's dailyActivity from the i-th on
LiveLoop(st, entries, i, z, yr) ==
  IF i > Len(entries) THEN st
  ELSE LET e == entries[i] IN
       IF KeyYear(z, e.k) # yr THEN LiveLoop(st, entries, i + 1, z, yr)
       ELSE LiveLoop(AddDay(st, z, e.k, e.v), entries, i + 1, z, yr)

RECURSIVE CacheLoop(_, _, _, _, _)
\* lines 34-48: the cache's day-entries from the i-th on
CacheLoop(st, entries, i, z, yr) ==
  IF i > Len(entries) THEN st
  ELSE LET e == entries[i] IN
       IF e.date = Absent THEN CacheLoop(st, entries, i + 1, z, yr)
       ELSE IF KeyYear(z, e.date[1]) # yr THEN CacheLoop(st, entries, i + 1, z, yr)
       ELSE LET st1 == AddDay(st, z, e.date[1], e.messageCount)
                st2 == [st1 EXCEPT !.totalSessions = @ + e.sessionCount,
                                   !.totalToolCalls = @ + e.toolCallCount]
            IN CacheLoop(st2, entries, i + 1, z, yr)

\* lines 51-61: the sum of one field over every day-entry of the cache
CacheFieldSum(c, field) == SumSeq([i \in 1..Len(c.dailyActivity) |-> c.dailyActivity[i][field]])

\* MergeActivity adding the cache's day-entries on top of the live ones
MergeActivityBlended(u, c, z, yr) ==
  LET live == [LiveLoop(NoActivity, u.dailyActivity, 1, z, yr)
                 EXCEPT !.totalSessions = u.totalSessions]
  IN CacheLoop(IF Len(u.dailyActivity) > 0 THEN live ELSE NoActivity,
               c.dailyActivity, 1, z, yr)

\* MergeActivity without the backstops of lines 51-61
MergeActivityNoBackstop(u, c, z, yr) ==
  IF Len(u.dailyActivity) > 0
  THEN [LiveLoop(NoActivity, u.dailyActivity, 1, z, yr) EXCEPT !.totalSessions = u.totalSessions]
  ELSE CacheLoop(NoActivity, c.dailyActivity, 1, z, yr)

\* lines 21-61
MergeActivity(u, c, z, yr) ==
  LET primary ==
        IF Len(u.dailyActivity) > 0
        THEN [LiveLoop(NoActivity, u.dailyActivity, 1, z, yr)
                EXCEPT !.totalSessions = u.totalSessions]
        ELSE CacheLoop(NoActivity, c.dailyActivity, 1, z, yr)
      tools == IF primary.totalToolCalls = 0
               THEN CacheFieldSum(c, "toolCallCount") ELSE primary.totalToolCalls
      sessions == IF primary.totalSessions = 0
                  THEN CacheFieldSum(c, "sessionCount") ELSE primary.totalSessions
  IN [primary EXCEPT !.totalToolCalls = tools, !.totalSessions = sessions]

RECURSIVE AddTokensByModel(_, _, _)
\* lines 74-76: one day's tokensByModel added to the running map
AddTokensByModel(m, byModel, j) ==
  IF j > Len(byModel) THEN m
  ELSE AddTokensByModel(MapSet(m, byModel[j].k, MapGetOr0(m, byModel[j].k) + byModel[j].v),
                        byModel, j + 1)

RECURSIVE DailyModelLoop(_, _, _, _, _)
\* lines 69-77
DailyModelLoop(m, entries, i, z, yr) ==
  IF i > Len(entries) THEN m
  ELSE LET e == entries[i] IN
       IF e.date = Absent THEN DailyModelLoop(m, entries, i + 1, z, yr)
       ELSE IF KeyYear(z, e.date[1]) # yr THEN DailyModelLoop(m, entries, i + 1, z, yr)
       ELSE DailyModelLoop(AddTokensByModel(m, e.tokensByModel, 1), entries, i + 1, z, yr)

RECURSIVE ModelUsageLoop(_, _, _)
\* lines 82-87
ModelUsageLoop(m, mu, i) ==
  IF i > Len(mu) THEN m
  ELSE LET tokens == mu[i].v.inputTokens + mu[i].v.outputTokens IN
       IF tokens > 0 THEN ModelUsageLoop(MapSet(m, mu[i].k, tokens), mu, i + 1)
       ELSE ModelUsageLoop(m, mu, i + 1)

\* lines 63-88: the merged per-model token map
MergeModelTokens(u, c, z, yr) ==
  LET first == IF Len(u.modelTokenTotals) > 0 THEN u.modelTokenTotals
               ELSE DailyModelLoop(<<>>, c.dailyModelTokens, 1, z, yr)
  IN IF Len(first) = 0 THEN ModelUsageLoop(first, c.modelUsage, 1) ELSE first

\* Math.round of the quotient p / q, q > 0: halves go up
RoundDiv(p, q) == (2 * p + q) \div (2 * q)

\* Apportion without the adjustment of the input component for rounding drift
ApportionUnadjusted(tokens, usageRec) ==
  IF usageRec = Absent \/ usageRec[1].inputTokens + usageRec[1].outputTokens
                            + usageRec[1].cacheReadInputTokens
                            + usageRec[1].cacheCreationInputTokens <= 0
  THEN [inputTokens |-> tokens, outputTokens |-> 0,
        cachedInputTokens |-> 0, cacheCreationTokens |-> 0]
  ELSE
    LET r == usageRec[1]
        usageTotal == r.inputTokens + r.outputTokens + r.cacheReadInputTokens
                        + r.cacheCreationInputTokens
    IN [inputTokens |-> RoundDiv(r.inputTokens * tokens, usageTotal),
        outputTokens |-> RoundDiv(r.outputTokens * tokens, usageTotal),
        cachedInputTokens |-> RoundDiv(r.cacheReadInputTokens * tokens, usageTotal),
        cacheCreationTokens |-> RoundDiv(r.cacheCreationInputTokens * tokens, usageTotal)]

\* lines 114-138: a model's aggregate split by its usage record (Absent: none)
Apportion(tokens, usageRec) ==
  LET whole == [inputTokens |-> tokens, outputTokens |-> 0,
                cachedInputTokens |-> 0, cacheCreationTokens |-> 0]
  IN
  IF usageRec = Absent THEN whole
  ELSE
    LET r == usageRec[1]
        usageTotal == r.inputTokens + r.outputTokens + r.cacheReadInputTokens
                        + r.cacheCreationInputTokens
    IN
    IF usageTotal <= 0 THEN whole
    ELSE
      LET inputTokens == RoundDiv(r.inputTokens * tokens, usageTotal)
          outputTokens == RoundDiv(r.outputTokens * tokens, usageTotal)
          cachedInputTokens == RoundDiv(r.cacheReadInputTokens * tokens, usageTotal)
          cacheCreationTokens == RoundDiv(r.cacheCreationInputTokens * tokens, usageTotal)
          scaledTotal == inputTokens + outputTokens + cachedInputTokens + cacheCreationTokens
      IN [inputTokens |-> inputTokens + (tokens - scaledTotal),
          outputTokens |-> outputTokens,
          cachedInputTokens |-> cachedInputTokens,
          cacheCreationTokens |-> cacheCreationTokens]

\* modelUsage[modelId]
UsageOf(c, modelId) ==
  IF MapHas(c.modelUsage, modelId) THEN Present(MapGet(c.modelUsage, modelId)) ELSE Absent

\* lines 90-95
HasUsageSummaryTokens(u) ==
  \/ u.totalTokens > 0
  \/ u.totalInputTokens > 0
  \/ u.totalOutputTokens > 0
  \/ u.totalCacheReadTokens > 0
  \/ u.totalCacheCreationTokens > 0

\* String.prototype.startsWith
StartsWith(s, prefix) == Len(s) >= Len(prefix) /\ SubSeq(s, 1, Len(prefix)) = prefix

\* the model directory: the provider of a model it lists, "unknown" otherwise
getModelProvider(modelId) == IF modelId = "claude-a" THEN "anthropic" ELSE "unknown"

\* lines 227-235
resolveProviderId(modelId) ==
  LET provider == getModelProvider(modelId) IN
  IF provider # "" /\ provider # "unknown" THEN provider
  ELSE IF StartsWith(modelId, "claude") THEN "anthropic"
  ELSE IF StartsWith(modelId, "gpt") \/ StartsWith(modelId, "openai") THEN "openai"
  ELSE "unknown"

RECURSIVE ModelLoop(_, _, _, _, _)
\* lines 108-163: the merged map's entries from the i-th on
ModelLoop(st, merged, i, c, live) ==
  IF i > Len(merged) THEN st
  ELSE
    LET modelId == merged[i].k
        tokens == merged[i].v
    IN
    IF tokens <= 0 THEN ModelLoop(st, merged, i + 1, c, live)
    ELSE
      LET rec == UsageOf(c, modelId)
          part == Apportion(tokens, rec)
          st1 == IF live THEN st
                 ELSE [st EXCEPT
                         !.totalTokens = @ + tokens,
                         !.totalCacheReadTokens =
                            IF rec # Absent THEN @ + part.cachedInputTokens ELSE @,
                         !.totalCacheWriteTokens =
                            IF rec # Absent THEN @ + part.cacheCreationTokens ELSE @,
                         !.totalInputTokens = @ + part.inputTokens,
                         !.totalOutputTokens = @ + part.outputTokens]
          st2 == [st1 EXCEPT
                    !.totalWebSearchRequests =
                       IF rec # Absent THEN @ + rec[1].webSearchRequests ELSE @,
                    !.peakContextWindow =
                       IF rec # Absent THEN Max(@, rec[1].contextWindow) ELSE @,
                    !.providerCounts =
                       MapSet(@, resolveProviderId(modelId),
                              MapGetOr0(@, resolveProviderId(modelId)) + tokens),
                    !.modelStats = Append(@, [id |-> modelId, count |-> tokens, split |-> part])]
      IN ModelLoop(st2, merged, i + 1, c, live)

\* MergeTokens adding the per-model figures on top of the live scalars
MergeTokensOnTop(u, c, merged) ==
  ModelLoop([ totalTokens |-> u.totalTokens,
              totalInputTokens |-> u.totalInputTokens,
              totalOutputTokens |-> u.totalOutputTokens,
              totalCost |-> u.totalCostUSD,
              totalCacheReadTokens |-> u.totalCacheReadTokens,
              totalCacheWriteTokens |-> u.totalCacheCreationTokens,
              totalWebSearchRequests |-> 0,
              peakContextWindow |-> 0,
              providerCounts |-> <<>>,
              modelStats |-> <<>> ],
            merged, 1, c, FALSE)

\* lines 90-163
MergeTokens(u, c, merged) ==
  ModelLoop([ totalTokens |-> u.totalTokens,
              totalInputTokens |-> u.totalInputTokens,
              totalOutputTokens |-> u.totalOutputTokens,
              totalCost |-> u.totalCostUSD,
              totalCacheReadTokens |-> u.totalCacheReadTokens,
              totalCacheWriteTokens |-> u.totalCacheCreationTokens,
              totalWebSearchRequests |-> 0,
              peakContextWindow |-> 0,
              providerCounts |-> <<>>,
              modelStats |-> <<>> ],
            merged, 1, c, HasUsageSummaryTokens(u))

\* a percentage as the exact quotient num / den
Percentage(count, totalTokens) ==
  IF totalTokens > 0 THEN [num |-> count * 100, den |-> totalTokens]
  ELSE [num |-> 0, den |-> 1]

RECURSIVE SortByCount(_)
\* sort((a, b) => b.count - a.count): descending, equal counts keep their order
SortByCount(entries) ==
  IF entries = <<>> THEN <<>>
  ELSE LET i == CHOOSE j \in 1..Len(entries) :
                  /\ \A k \in 1..Len(entries) : entries[k].count <= entries[j].count
                  /\ \A k \in 1..(j - 1) : entries[k].count < entries[j].count
       IN <<entries[i]>> \o
          SortByCount([k \in 1..(Len(entries) - 1) |->
                         IF k < i THEN entries[k] ELSE entries[k + 1]])

\* lines 165-181: sort, slice(0, 3), and the percentage of the final total
TopThree(entries, totalTokens) ==
  LET sorted == SortByCount(entries)
      top == SubSeq(sorted, 1, IF Len(sorted) < 3 THEN Len(sorted) ELSE 3)
  IN [i \in 1..Len(top) |->
        [id |-> top[i].id, count |-> top[i].count,
         percentage |-> Percentage(top[i].count, totalTokens)]]

RECURSIVE MostActiveLoop(_, _, _)
\* lines 327-332: the entries from the i-th on
MostActiveLoop(st, dailyActivity, i) ==
  IF i > Len(dailyActivity) THEN st
  ELSE IF dailyActivity[i].v > st.maxCount
       THEN MostActiveLoop([maxDate |-> Present(dailyActivity[i].k),
                            maxCount |-> dailyActivity[i].v], dailyActivity, i + 1)
       ELSE MostActiveLoop(st, dailyActivity, i + 1)

\* lines 319-349: null is Absent; formattedDate is the month and the day of the key
findMostActiveDay(dailyActivity) ==
  IF Len(dailyActivity) = 0 THEN Absent
  ELSE LET st == MostActiveLoop([maxDate |-> Absent, maxCount |-> 0], dailyActivity, 1) IN
       IF st.maxDate = Absent THEN Absent
       ELSE Present([date |-> st.maxDate[1], count |-> st.maxCount,
                     formattedDate |-> <<st.maxDate[1][2], st.maxDate[1][3]>>])

-----------------------------------------------------------------------------
(* stats.ts: streaks *)

RECURSIVE SortKeys(_)
\* Array.prototype.sort of a set of distinct date keys
SortKeys(S) ==
  IF S = {} THEN <<>>
  ELSE LET lo == CHOOSE a \in S : \A b \in S \ {a} : KeyLess(a, b)
       IN <<lo>> \o SortKeys(S \ {lo})

\* lines 248-250: date.startsWith(String(year)), sorted
ActiveDates(dailyActivity, yr) == SortKeys({k \in MapKeys(dailyActivity) : k[1] = yr})

RECURSIVE StreakLoopLastWins(_, _, _)
\* StreakLoop with tempStreak >= maxStreak: a later run of equal length replaces the longest
StreakLoopLastWins(st, activeDates, i) ==
  IF i > Len(activeDates) THEN st
  ELSE
    LET diffTime == ParseDateKey(activeDates[i]) - ParseDateKey(activeDates[i - 1])
        diffDays == RoundDiv(diffTime, DayLen)
    IN
    IF diffDays = 1
    THEN LET t == st.tempStreak + 1 IN
         IF t >= st.maxStreak
         THEN StreakLoopLastWins([st EXCEPT !.tempStreak = t, !.maxStreak = t,
                                            !.maxStreakStart = st.tempStreakStart,
                                            !.maxStreakEnd = i],
                                 activeDates, i + 1)
         ELSE StreakLoopLastWins([st EXCEPT !.tempStreak = t], activeDates, i + 1)
    ELSE StreakLoopLastWins([st EXCEPT !.tempStreak = 1, !.tempStreakStart = i],
                            activeDates, i + 1)

RECURSIVE StreakLoop(_, _, _)
\* lines 262-281, with the array's indexes counted from 1
StreakLoop(st, activeDates, i) ==
  IF i > Len(activeDates) THEN st
  ELSE
    LET diffTime == ParseDateKey(activeDates[i]) - ParseDateKey(activeDates[i - 1])
        diffDays == RoundDiv(diffTime, DayLen)
    IN
    IF diffDays = 1
    THEN LET t == st.tempStreak + 1 IN
         IF t > st.maxStreak
         THEN StreakLoop([st EXCEPT !.tempStreak = t, !.maxStreak = t,
                                    !.maxStreakStart = st.tempStreakStart,
                                    !.maxStreakEnd = i],
                         activeDates, i + 1)
         ELSE StreakLoop([st EXCEPT !.tempStreak = t], activeDates, i + 1)
    ELSE StreakLoop([st EXCEPT !.tempStreak = 1, !.tempStreakStart = i], activeDates, i + 1)

RECURSIVE countStreakBackwards(_, _, _)
\* lines 303-317: the days before startDate, 24 hours at a time
countStreakBackwards(dailyActivity, z, startDate) ==
  LET checkDate == startDate - DayLen IN
  IF MapHas(dailyActivity, formatDateKey(z, checkDate))
  THEN 1 + countStreakBackwards(dailyActivity, z, checkDate)
  ELSE 1

\* lines 243-300
calculateStreaks(dailyActivity, yr, z, t) ==
  LET activeDates == ActiveDates(dailyActivity, yr) IN
  IF Len(activeDates) = 0
  THEN [maxStreak |-> 0, currentStreak |-> 0, maxStreakDays |-> {}]
  ELSE
    LET st == StreakLoop([maxStreak |-> 1, tempStreak |-> 1, tempStreakStart |-> 1,
                          maxStreakStart |-> 1, maxStreakEnd |-> 1],
                         activeDates, 2)
        today == formatDateKey(z, t)
        yesterday == formatDateKey(z, t - DayLen)
        currentStreak ==
          IF MapHas(dailyActivity, today) THEN countStreakBackwards(dailyActivity, z, t)
          ELSE IF MapHas(dailyActivity, yesterday)
               THEN countStreakBackwards(dailyActivity, z, t - DayLen)
               ELSE 0
    IN [maxStreak |-> st.maxStreak,
        currentStreak |-> currentStreak,
        maxStreakDays |-> {activeDates[i] : i \in st.maxStreakStart..st.maxStreakEnd}]

\* lines 6-225: the snapshot, with the merged model map and the per-model split kept
calculateStats(u, c, z, yr, t) ==
  LET activity == MergeActivity(u, c, z, yr)
      modelTokenTotals == MergeModelTokens(u, c, z, yr)
      tokens == MergeTokens(u, c, modelTokenTotals)
      streaks == calculateStreaks(activity.dailyActivity, yr, z, t)
  IN [ year |-> yr,
       totalSessions |-> activity.totalSessions,
       totalMessages |-> activity.totalMessages,
       totalToolCalls |-> activity.totalToolCalls,
       dailyActivity |-> activity.dailyActivity,
       weekdayCounts |-> activity.weekdayCounts,
       modelTokenTotals |-> modelTokenTotals,
       modelStats |-> tokens.modelStats,
       topModels |-> TopThree(tokens.modelStats, tokens.totalTokens),
       topProviders |->
         TopThree([i \in 1..Len(tokens.providerCounts) |->
                     [id |-> tokens.providerCounts[i].k, count |-> tokens.providerCounts[i].v]],
                  tokens.totalTokens),
       mostActiveDay |-> findMostActiveDay(activity.dailyActivity),
       totalTokens |-> tokens.totalTokens,
       totalInputTokens |-> tokens.totalInputTokens,
       totalOutputTokens |-> tokens.totalOutputTokens,
       totalCacheReadTokens |-> tokens.totalCacheReadTokens,
       totalCacheWriteTokens |-> tokens.totalCacheWriteTokens,
       totalWebSearchRequests |-> tokens.totalWebSearchRequests,
       peakContextWindow |-> tokens.peakContextWindow,
       totalCost |-> tokens.totalCost,
       maxStreak |-> streaks.maxStreak,
       currentStreak |-> streaks.currentStreak,
       maxStreakDays |-> streaks.maxStreakDays ]

-----------------------------------------------------------------------------
(* The run: collectClaudeUsageSummary line by line, then calculateStats *)

NoUsage == Summary(InitAcc)

\* before calculateStats returns there is no snapshot
NoSnap == [year |-> 0]

\* index.ts:88: the year is between 2024 and the current year
ValidYear(z, t, yr) == yr >= 2024 /\ yr <= GetFullYear(z, t)

\* process.exit(code)
Exit(code) ==
  /\ exitCode' = Present(code)
  /\ pc' = "exit"

\* index.ts 44-111: main up to the call of calculateStats
Startup ==
  /\ pc = "start"
  /\ IF env.args = "unknown" THEN Exit(1)
     ELSE IF env.args = "help" THEN Exit(0)
     ELSE IF ~ ValidYear(zone, now, year) THEN Exit(1)
     ELSE IF ~ env.available THEN Exit(0)
     ELSE IF ~ checkClaudeDataExists(dirs) THEN Exit(0)
     ELSE pc' = "roots" /\ UNCHANGED exitCode
  /\ UNCHANGED <<inputs, paths, thrown, imageStarted, fi, li, acc, usage, snap>>

\* collector.ts 446-447: collectClaudeUsageSummary resolves the project roots
ListRoots ==
  /\ pc = "roots"
  /\ paths' = [paths EXCEPT !.roots = getClaudeProjectRoots(dirs)]
  /\ pc' = "scan"
  /\ UNCHANGED <<inputs, thrown, exitCode, imageStarted, fi, li, acc, usage, snap>>

\* createReadStream + createInterface on the next file of the scan order; nothing catches
\* the error of a file that cannot be opened
OpenFile ==
  /\ pc = "scan" /\ li = 0 /\ fi <= Len(ScanOrder)
  /\ IF ScanOrder[fi] \in env.unreadable
     THEN pc' = "threw" /\ thrown' = "open" /\ UNCHANGED li
     ELSE li' = 1 /\ UNCHANGED <<pc, thrown>>
  /\ UNCHANGED <<inputs, paths, exitCode, imageStarted, fi, acc, usage, snap>>

\* one turn of the loop over the open file's lines
ReadLine ==
  /\ pc = "scan" /\ li >= 1 /\ fi <= Len(ScanOrder)
  /\ li <= Len(files[ScanOrder[fi]])
  /\ acc' = ProcessLine(acc, files[ScanOrder[fi]][li], zone, year)
  /\ li' = li + 1
  /\ UNCHANGED <<inputs, pc, paths, thrown, exitCode, imageStarted, fi, usage, snap>>

\* the open file is exhausted: on to the next one
EndOfFile ==
  /\ pc = "scan" /\ li >= 1 /\ fi <= Len(ScanOrder)
  /\ li > Len(files[ScanOrder[fi]])
  /\ fi' = fi + 1
  /\ li' = 0
  /\ UNCHANGED <<inputs, pc, paths, thrown, exitCode, imageStarted, acc, usage, snap>>

\* the files of the roots listed so far are read: the next listing fails, which nothing
\* catches, or every root is scanned and the summary is returned
ReturnSummary ==
  /\ pc = "scan" /\ li = 0 /\ fi > Len(ScanOrder)
  /\ IF FirstUnlistable <= Len(roots)
     THEN pc' = "threw" /\ thrown' = "scandir" /\ UNCHANGED usage
     ELSE pc' = "merge" /\ usage' = Summary(acc) /\ UNCHANGED thrown
  /\ UNCHANGED <<inputs, paths, exitCode, imageStarted, fi, li, acc, snap>>

\* calculateStats once Promise.all has settled: it rejects when loadClaudeStatsCache,
\* which resolves the data path, does
Merge ==
  /\ pc = "merge"
  /\ paths' = [paths EXCEPT !.data = resolveClaudeDataPath(dirs)]
  /\ IF loadClaudeStatsCache(dirs, env) # ""
     THEN pc' = "threw" /\ thrown' = loadClaudeStatsCache(dirs, env) /\ UNCHANGED snap
     ELSE pc' = "done" /\ snap' = calculateStats(usage, cache, zone, year, now)
            /\ UNCHANGED thrown
  /\ UNCHANGED <<inputs, exitCode, imageStarted, fi, li, acc, usage>>

\* Finish without the test of totalSessions
FinishNoSessionTest ==
  /\ env.entry = "main"
  /\ pc \in {"done", "threw"}
  /\ IF pc = "threw" THEN Exit(1) /\ UNCHANGED imageStarted
     ELSE /\ imageStarted' = TRUE
          /\ IF env.imageFails THEN Exit(1) ELSE Exit(0)
  /\ UNCHANGED <<inputs, paths, thrown, fi, li, acc, usage, snap>>

\* index.ts 113-127, 165-175 and 302-305: main after calculateStats settled
Finish ==
  /\ env.entry = "main"
  /\ pc \in {"done", "threw"}
  /\ IF pc = "threw" THEN Exit(1) /\ UNCHANGED imageStarted
     ELSE IF snap.totalSessions = 0 THEN Exit(0) /\ UNCHANGED imageStarted
     ELSE /\ imageStarted' = TRUE
          /\ IF env.imageFails THEN Exit(1) ELSE Exit(0)
  /\ UNCHANGED <<inputs, paths, thrown, fi, li, acc, usage, snap>>

Next ==
  Startup \/ ListRoots \/ OpenFile \/ ReadLine \/ EndOfFile \/ ReturnSummary \/ Merge \/ Finish

-----------------------------------------------------------------------------
(* Inputs *)

\* the instant h hours after UTC midnight of a date
At(key, h) == ParseDateKey(key) + h

UTC == [std |-> 0, dst |-> FALSE, dstFrom |-> 0, dstTo |-> 0]

Tokyo == [std |-> 9, dst |-> FALSE, dstFrom |-> 0, dstTo |-> 0]

\* America/New_York with its daylight saving time of 2025
NewYork == [std |-> -5, dst |-> TRUE,
            dstFrom |-> At(<<2025, 3, 9>>, 7), dstTo |-> At(<<2025, 11, 2>>, 6)]

Zones == {UTC, Tokyo, NewYork}

\* the days the inputs are dated on: around New Year and around the two clock changes
DateWindow ==
  { <<2024, 12, 30>>, <<2024, 12, 31>>, <<2025, 1, 1>>, <<2025, 1, 2>>,
    <<2025, 3, 8>>, <<2025, 3, 9>>, <<2025, 3, 10>>,
    <<2025, 11, 1>>, <<2025, 11, 2>>, <<2025, 11, 3>> }

\* the instants the program is run at
NowPool ==
  { At(<<2025, 1, 1>>, 3), At(<<2025, 1, 1>>, 12), At(<<2025, 1, 2>>, 12),
    At(<<2025, 3, 10>>, 4), At(<<2025, 11, 3>>, 4) }

MaxActive == 4

EmptyCache == [dailyActivity |-> <<>>, dailyModelTokens |-> <<>>, modelUsage |-> <<>>]

Rec(mid, rid, ts, sid, model, u, cost) ==
  [kind |-> "object", mid |-> mid, rid |-> rid, ts |-> ts, sid |-> sid,
   model |-> model, usage |-> u, costUSD |-> cost]

\* a line that is blank, not JSON, or JSON but no object
Junk(kind) == [Rec("", "", TsMissing, "", Absent, Absent, Absent) EXCEPT !.kind = kind]

Tokens(i, o, cc, cr) ==
  Present([input_tokens |-> Present(i), output_tokens |-> Present(o),
           cache_creation_input_tokens |-> Present(cc),
           cache_read_input_tokens |-> Present(cr)])

\* one cache day-entry per date of D, in date order; with b = 0 some have no messages
DayEntries(D, b) ==
  LET ks == SortKeys(D) IN
  [i \in 1..Len(ks) |->
     [date |-> Present(ks[i]), messageCount |-> b + (ks[i][3] % 3),
      sessionCount |-> ks[i][3] % 2, toolCallCount |-> 1]]

\* one log line per date of D, h hours after its UTC midnight, in date order
DayLines(D, h) ==
  LET ks == SortKeys(D) IN
  [i \in 1..Len(ks) |->
     Rec("", "", TsAt(At(ks[i], h)), IF ks[i][3] % 2 = 0 THEN "s1" ELSE "", Absent, Absent, Absent)]

\* a cache left behind by an earlier run
StaleCache ==
  [EmptyCache EXCEPT !.dailyActivity =
     << [date |-> Present(<<2024, 12, 31>>), messageCount |-> 5, sessionCount |-> 2,
         toolCallCount |-> 3],
        [date |-> Present(<<2025, 1, 2>>), messageCount |-> 7, sessionCount |-> 4,
         toolCallCount |-> 1] >>]

\* a run with well-formed arguments that meets no failure
\* nothing resolved yet
NoPaths == [roots |-> <<>>, data |-> Absent]

\* an installation in the default places with n project roots (n <= 2), with or without
\* its stats-cache.json
PlainDirs(n, found) ==
  [override |-> Absent,
   marker |-> IF found THEN {CLAUDE_CONFIG_PATH} ELSE {},
   projects |-> Range(SubSeq(<<CLAUDE_CONFIG_PATH, CLAUDE_DATA_PATH>>, 1, n))]

NormalEnv ==
  [entry |-> "main", args |-> "ok", available |-> TRUE, cacheFile |-> "object",
   unreadable |-> {}, unlistable |-> {}, imageFails |-> FALSE]

\* main is started, or calculateStats is called
InitRun ==
  /\ pc = IF env.entry = "main" THEN "start" ELSE "roots"
  /\ paths = NoPaths
  /\ thrown = "" /\ exitCode = Absent /\ imageStarted = FALSE
  /\ fi = 1 /\ li = 0
  /\ acc = InitAcc /\ usage = NoUsage /\ snap = NoSnap

InitClock ==
  /\ env = NormalEnv
  /\ zone \in Zones
  /\ now \in NowPool
  /\ year \in {yr \in YearRange : ValidYear(zone, now, yr)}

\* activity on up to MaxActive days, known from the cache alone, from a cache that lists
\* a day twice, or from the logs
InitDates ==
  /\ InitClock
  /\ \E D \in {X \in SUBSET DateWindow : Cardinality(X) <= MaxActive} :
       \/ /\ Cardinality(D) = 1
          /\ cache = [EmptyCache EXCEPT !.dailyActivity = DayEntries(D, 1) \o DayEntries(D, 0)]
          /\ files = <<>>
          /\ roots = <<>>
       \/ /\ \E b \in {0, 1} : cache = [EmptyCache EXCEPT !.dailyActivity = DayEntries(D, b)]
          /\ files = <<>>
          /\ roots = <<>>
       \/ /\ D # {}
          /\ cache = StaleCache
          /\ \E h \in {2, 12} : files = << DayLines(D, h) >>
          /\ roots = << <<1>> >>
  /\ dirs = PlainDirs(Len(roots), TRUE)
  /\ InitRun

SpecDates == InitDates /\ [][Next]_vars

MaxField == 1

MaxTokens == 3

\* a cache usage record
UsageRec(i, o, cr, cc) ==
  [inputTokens |-> i, outputTokens |-> o, cacheReadInputTokens |-> cr,
   cacheCreationInputTokens |-> cc, webSearchRequests |-> 1, contextWindow |-> 200]

\* the cache's modelUsage: "claude-a" with any fields up to MaxField or absent, "gpt-x" or not
ModelUsages ==
  LET claude == {<<>>} \cup
                {<<[k |-> "claude-a", v |-> UsageRec(i, o, cr, cc)]>> :
                   i \in 0..MaxField, o \in 0..MaxField, cr \in 0..MaxField, cc \in 0..MaxField}
      gpt == {<<>>, <<[k |-> "gpt-x", v |-> UsageRec(1, 1, 1, 1)]>>}
  IN {a \o b : a \in claude, b \in gpt}

\* the cache's dailyModelTokens: one entry per date of D, t tokens of "claude-a" a day
ModelDays(D, t, withGpt) ==
  LET ks == SortKeys(D) IN
  [i \in 1..Len(ks) |->
     [date |-> Present(ks[i]),
      tokensByModel |-> <<[k |-> "claude-a", v |-> t]>> \o
                        (IF withGpt THEN <<[k |-> "gpt-x", v |-> 1]>> ELSE <<>>)]]

\* the logs of the requested year yr: none, or one record of one of four shapes
LiveLogs(yr) ==
  LET ts == TsAt(At(<<yr, 1, 2>>, 12)) IN
  { <<>>,
    << <<Rec("m1", "r1", ts, "s1", Present("claude-a"), Tokens(2, 1, 0, 1), Absent)>> >>,
    << <<Rec("m1", "r1", ts, "s1", Absent, Tokens(2, 1, 0, 1), Absent)>> >>,
    << <<Rec("m1", "r1", ts, "s1", Present("claude-a"), Tokens(0, 0, 0, 0), Absent)>> >>,
    << <<Rec("m1", "r1", ts, "s1", Present("claude-a"), Absent, Present(5))>> >> }

\* token figures in the cache (per day and per model) and in at most one log record
InitTokens ==
  /\ env = NormalEnv
  /\ zone \in Zones
  /\ now = At(<<2025, 1, 2>>, 12)
  /\ year \in {yr \in YearRange : ValidYear(zone, now, yr)}
  /\ \E D \in SUBSET {<<2024, 12, 31>>, <<2025, 1, 1>>, <<2025, 1, 2>>},
        t \in 1..MaxTokens, withGpt \in BOOLEAN, mu \in ModelUsages :
       cache = [StaleCache EXCEPT !.dailyModelTokens = ModelDays(D, t, withGpt),
                                  !.modelUsage = mu]
  /\ files \in LiveLogs(year)
  /\ roots = [i \in 1..Len(files) |-> <<i>>]
  /\ dirs = PlainDirs(Len(roots), TRUE)
  /\ InitRun

Spec == InitTokens /\ [][Next]_vars

MaxLines == 2

\* log lines: a record with or without an identity key, dated in or before the requested
\* year, with or without a usage block, or a line that is not JSON
LinePool(yr) ==
  {Rec(mid, "r1", TsAt(t), "s1", Present("claude-a"), u, Absent) :
     mid \in {"", "m1", "m2"},
     t \in {At(<<yr, 3, 9>>, 12), At(<<yr - 1, 12, 30>>, 12)},
     u \in {Absent, Tokens(2, 1, 0, 1)}}
  \cup {Rec("m1", "r1", ts, "s1", Present("claude-a"), Tokens(2, 1, 0, 1), Absent) :
          ts \in {TsMissing, TsInvalid}}
  \cup {Junk("garbage")}

SeqsUpTo(S, n) == UNION {[1..k -> S] : k \in 0..n}

\* two log files under one root, a second root holding both again, or one that is nested
\* in the first and holds the second file again
InitOverlap ==
  /\ env = NormalEnv
  /\ zone = NewYork
  /\ now = At(<<2025, 11, 3>>, 4)
  /\ year = 2025
  /\ cache = StaleCache
  /\ \E f1 \in SeqsUpTo(LinePool(year), MaxLines), f2 \in SeqsUpTo(LinePool(year), 1) :
       files = <<f1, f2>>
  /\ roots \in { << <<1, 2>> >>, << <<1, 2>>, <<1, 2>> >>, << <<1, 2>>, <<2>> >> }
  /\ dirs = PlainDirs(Len(roots), TRUE)
  /\ InitRun

SpecOverlap == InitOverlap /\ [][Next]_vars

\* log records of the requested year that differ in what they say about cost: with or
\* without costUSD, with no usage block, one that sums to zero or a positive one, and
\* with no model, a blank one, a priced one or one the price table does not know
CostPool(yr) ==
  {Rec("", "r1", TsAt(At(<<yr, 3, 8>>, 12)), "s1", model, u, cost) :
     model \in {Absent, Present(" "), Present("claude-a"), Present("gpt-x")},
     u \in {Absent, Tokens(0, 0, 0, 0), Tokens(2, 1, 0, 1)},
     cost \in {Absent, Present(5)}}

\* one log file of up to MaxLines such records
InitCost ==
  /\ env = NormalEnv
  /\ zone = UTC
  /\ now = At(<<2025, 11, 3>>, 4)
  /\ year = 2025
  /\ cache = StaleCache
  /\ \E f \in SeqsUpTo(CostPool(year), MaxLines) : files = <<f>>
  /\ roots = << <<1>> >>
  /\ dirs = PlainDirs(Len(roots), TRUE)
  /\ InitRun

SpecCost == InitCost /\ [][Next]_vars

\* what is in the stats-cache.json of the data path: text that is no JSON, or JSON of a
\* kind
CacheFileKinds == {"garbage", "null", "scalar", "array", "object"}

\* the ways a run can go wrong: main started with arguments of any kind and a year of any
\* value, or calculateStats called; a cache file of any kind, or none in any base (the
\* kind is then of no effect and is fixed); log files that cannot be
\* opened and roots that cannot be listed; an image that cannot be generated
FaultyEnvs(nRoots, nFiles) ==
  {e \in [entry : {"main", "calculateStats"}, args : {"ok", "help", "unknown"},
          available : BOOLEAN, cacheFile : CacheFileKinds,
          unreadable : SUBSET (1..nFiles), unlistable : SUBSET (1..nRoots),
          imageFails : BOOLEAN] :
     e.entry = "calculateStats" => e.args = "ok" /\ e.available /\ ~ e.imageFails}

\* two roots with a log file each, or no root at all
InitFaults ==
  /\ zone = UTC
  /\ now = At(<<2025, 11, 3>>, 4)
  /\ year \in YearRange
  /\ \E withLogs \in BOOLEAN :
       /\ files = IF withLogs
                  THEN << <<Rec("m1", "r1", TsAt(At(<<2025, 3, 8>>, 12)), "s1",
                                Present("claude-a"), Tokens(2, 1, 0, 1), Absent)>>,
                          <<Rec("m2", "r1", TsAt(At(<<2025, 3, 9>>, 12)), "s2",
                                Present("claude-a"), Tokens(1, 1, 0, 0), Absent)>> >>
                  ELSE <<>>
       /\ roots = [i \in 1..Len(files) |-> <<i>>]
  /\ env \in FaultyEnvs(Len(roots), Len(files))
  /\ \E found \in BOOLEAN :
       /\ dirs = PlainDirs(Len(roots), found)
       /\ ~ found => env.cacheFile = "object"
       /\ cache \in IF found /\ env.cacheFile = "object" THEN {EmptyCache, StaleCache}
                    ELSE {EmptyCache}
  /\ InitRun

SpecFaults == InitFaults /\ [][Next]_vars

\* a base directory that is neither default
OtherBase == "/srv/claude"

Bases == {CLAUDE_CONFIG_PATH, CLAUDE_DATA_PATH, OtherBase}

\* CLAUDE_CONFIG_DIR (or --config-dir, index.ts 70-73): unset, a value of commas only,
\* one path, two paths, one path twice
Overrides ==
  {Absent, Present(<<>>), Present(<<OtherBase>>),
   Present(<<OtherBase, CLAUDE_DATA_PATH>>), Present(<<OtherBase, OtherBase>>)}

\* every way the three bases can hold a stats-cache.json and a projects directory
DirConfigs == [override : Overrides, marker : SUBSET Bases, projects : SUBSET Bases]

\* the log file of each project root: one record of the requested year
RootLogs ==
  << <<Rec("m1", "r1", TsAt(At(<<2025, 3, 8>>, 12)), "s1",
           Present("claude-a"), Tokens(2, 1, 0, 1), Absent)>>,
     <<Rec("m2", "r1", TsAt(At(<<2025, 3, 9>>, 12)), "s2",
           Present("claude-a"), Tokens(1, 1, 0, 0), Absent)>> >>

\* any configuration of the directories, a log file under each root that is scanned and a
\* well-formed cache where one is found; main is started, or calculateStats is called
InitPaths ==
  /\ zone = UTC
  /\ now = At(<<2025, 11, 3>>, 4)
  /\ year = 2025
  /\ dirs \in DirConfigs
  /\ files = SubSeq(RootLogs, 1, Len(getClaudeProjectRoots(dirs)))
  /\ roots = [i \in 1..Len(files) |-> <<i>>]
  /\ \E entry \in {"main", "calculateStats"} : env = [NormalEnv EXCEPT !.entry = entry]
  /\ cache = IF checkClaudeDataExists(dirs) THEN StaleCache ELSE EmptyCache
  /\ InitRun

SpecPaths == InitPaths /\ [][Next]_vars

-----------------------------------------------------------------------------
(* Claims about dates and streaks, checked under SpecDates *)

Done == pc = "done"

\* where the daily activity came from: the live map when it has entries, else the cache
LivePath == Len(usage.dailyActivity) > 0

\* the cache's day-entries dated in the requested year
CacheYearEntries ==
  {i \in 1..Len(cache.dailyActivity) :
     cache.dailyActivity[i].date # Absent /\ cache.dailyActivity[i].date[1][1] = year}

\* the day numbers of a set of date keys
DaysOf(keys) == {DayNumber(k) : k \in keys}

\* the n days from a on are all in S
RunFrom(S, a, n) == \A j \in 0..(n - 1) : a + j \in S

\* the length of the longest run of consecutive days in S
LongestRun(S) ==
  CHOOSE n \in 0..Cardinality(S) :
    /\ n > 0 => \E a \in S : RunFrom(S, a, n)
    /\ \A m \in (n + 1)..Cardinality(S) : ~ \E a \in S : RunFrom(S, a, m)

\* the days of the earliest longest run in S
EarliestLongestRun(S) ==
  IF S = {} THEN {}
  ELSE LET n == LongestRun(S)
           a == CHOOSE x \in S : RunFrom(S, x, n) /\ \A y \in S : RunFrom(S, y, n) => x <= y
       IN a..(a + n - 1)

YearDays == DaysOf({k \in MapKeys(snap.dailyActivity) : k[1] = year})

\* C4: maxStreak is the length of the longest run of consecutive active dates of the
\* requested year, and maxStreakDays is the earliest run of that length (empty, and
\* maxStreak 0, when no date is active).
C4_MaxStreak ==
  Done =>
    /\ snap.maxStreak = LongestRun(YearDays)
    /\ DaysOf(snap.maxStreakDays) = EarliestLongestRun(YearDays)
    /\ Cardinality(snap.maxStreakDays) = snap.maxStreak

\* a later run as long as the longest one exists and did not replace it
C4_Witness ==
  /\ Done
  /\ snap.maxStreak >= 2
  /\ \E a \in YearDays :
       /\ RunFrom(YearDays, a, snap.maxStreak)
       /\ \A d \in DaysOf(snap.maxStreakDays) : d < a

\* the calendar day the run happens on, and the one before it
Today == LocalDay(zone, now)

AllDays == DaysOf(MapKeys(snap.dailyActivity))

RECURSIVE BackRun(_, _)
\* the number of consecutive days of S ending at day d
BackRun(S, d) == IF d \in S THEN 1 + BackRun(S, d - 1) ELSE 0

\* C5: currentStreak is 0 when neither today nor yesterday is active; otherwise it is
\* the number of consecutive active calendar days ending at today, or else at yesterday.
C5_CurrentStreak ==
  Done =>
    snap.currentStreak =
      IF Today \in AllDays THEN BackRun(AllDays, Today)
      ELSE IF (Today - 1) \in AllDays THEN BackRun(AllDays, Today - 1)
      ELSE 0

\* the sum of one field over the cache's day-entries dated in the requested year
YearFieldSum(field) ==
  SetSum([i \in CacheYearEntries |-> cache.dailyActivity[i][field]], CacheYearEntries)

\* the events of the requested year in the source the daily activity is taken from
SourceYearMessages ==
  IF LivePath
  THEN LET I == {i \in 1..Len(usage.dailyActivity) : usage.dailyActivity[i].k[1] = year}
       IN SetSum([i \in I |-> usage.dailyActivity[i].v], I)
  ELSE YearFieldSum("messageCount")

\* C3: every key of the snapshot's dailyActivity is a date of the requested year, and
\* totalMessages, the weekday counts and the streak days come from such dates only.
C3_YearFilter ==
  Done =>
    /\ \A k \in MapKeys(snap.dailyActivity) : k[1] = year
    /\ \A k \in snap.maxStreakDays : k[1] = year
    /\ snap.totalMessages <= SourceYearMessages
    /\ SumSeq(snap.weekdayCounts) <= SourceYearMessages

\* C6: with no live activity and cache day-entries dated in the requested year, the
\* snapshot's dailyActivity holds exactly those entries, and totalMessages, totalSessions
\* and totalToolCalls are the sums of their fields.
C6_CacheFallback ==
  (Done /\ ~ LivePath /\ CacheYearEntries # {}) =>
    /\ Range(snap.dailyActivity) =
         {[k |-> cache.dailyActivity[i].date[1], v |-> cache.dailyActivity[i].messageCount] :
            i \in CacheYearEntries}
    /\ snap.totalMessages = YearFieldSum("messageCount")
    /\ snap.totalSessions = YearFieldSum("sessionCount")
    /\ snap.totalToolCalls = YearFieldSum("toolCallCount")

\* the live map has a date of the requested year
LiveYearActivity == \E k \in MapKeys(usage.dailyActivity) : k[1] = year

\* C7: when the live map has activity in the requested year, dailyActivity, totalMessages
\* and the weekday counts come from live entries only, whatever the cache holds, and
\* totalSessions is the live distinct-session count when that is positive.
C7_LiveOnly ==
  (Done /\ LiveYearActivity) =>
    /\ Range(snap.dailyActivity) \subseteq Range(usage.dailyActivity)
    /\ snap.totalMessages = SumSeq(MapValues(snap.dailyActivity))
    /\ \A w \in 1..7 :
         snap.weekdayCounts[w] =
           LET I == {i \in 1..Len(snap.dailyActivity) :
                       KeyWeekday(zone, snap.dailyActivity[i].k) + 1 = w}
           IN SetSum([i \in I |-> snap.dailyActivity[i].v], I)
    /\ usage.totalSessions > 0 => snap.totalSessions = usage.totalSessions

\* the cache holds a day the logs do not, dated in the requested year
C7_Witness ==
  /\ Done /\ LiveYearActivity
  /\ snap.totalMessages > 0
  /\ usage.totalSessions > 0
  /\ \E i \in CacheYearEntries :
       ~ MapHas(usage.dailyActivity, cache.dailyActivity[i].date[1])

\* the date, the count and the formatted date of the i-th entry of the snapshot's map
DayAt(i) ==
  [date |-> snap.dailyActivity[i].k, count |-> snap.dailyActivity[i].v,
   formattedDate |-> <<snap.dailyActivity[i].k[2], snap.dailyActivity[i].k[3]>>]

\* C12: mostActiveDay is null when the filtered daily-activity map is empty; when the map
\* is not empty it is non-null and is the first entry, in the map's iteration order, whose
\* count is the maximum of the map. It depends on the map alone.
C12_MostActiveDay ==
  Done =>
    IF Len(snap.dailyActivity) = 0 THEN snap.mostActiveDay = Absent
    ELSE /\ snap.mostActiveDay # Absent
         /\ \E i \in 1..Len(snap.dailyActivity) :
              /\ snap.mostActiveDay[1] = DayAt(i)
              /\ \A j \in 1..Len(snap.dailyActivity) :
                   snap.dailyActivity[j].v <= snap.dailyActivity[i].v
              /\ \A j \in 1..(i - 1) : snap.dailyActivity[j].v < snap.dailyActivity[i].v

\* the cache's day-entries the year test of the merger keeps
CacheKept ==
  {i \in 1..Len(cache.dailyActivity) :
     cache.dailyActivity[i].date # Absent /\ KeyYear(zone, cache.dailyActivity[i].date[1]) = year}

\* what the primary source yields for a field: the live summary's figure (it counts no
\* tool calls), or the sum over the cache's kept day-entries
PrimaryValue(field) ==
  IF LivePath THEN (IF field = "sessionCount" THEN usage.totalSessions ELSE 0)
  ELSE SetSum([i \in CacheKept |-> cache.dailyActivity[i][field]], CacheKept)

\* the sum of a field over every day-entry of the cache, of any year
AnyYearSum(field) ==
  LET I == 1..Len(cache.dailyActivity) IN SetSum([i \in I |-> cache.dailyActivity[i][field]], I)

\* C13: when the primary source yields 0 tool calls (sessions), the snapshot's total is the
\* sum of toolCallCount (sessionCount) over all cache day-entries of any year; when it
\* yields more, the total is the primary value with nothing of the cache added.
C13_Backstop ==
  Done =>
    /\ snap.totalToolCalls =
         IF PrimaryValue("toolCallCount") = 0 THEN AnyYearSum("toolCallCount")
         ELSE PrimaryValue("toolCallCount")
    /\ snap.totalSessions =
         IF PrimaryValue("sessionCount") = 0 THEN AnyYearSum("sessionCount")
         ELSE PrimaryValue("sessionCount")

\* the kept day-entries hold no session, those of another year do; tool calls are primary
C13_Witness ==
  /\ Done /\ ~ LivePath
  /\ CacheKept # {}
  /\ PrimaryValue("sessionCount") = 0
  /\ snap.totalSessions > 0
  /\ PrimaryValue("toolCallCount") > 0
  /\ AnyYearSum("toolCallCount") > snap.totalToolCalls

\* the events of the snapshot's days of the requested year in month m
MonthSum(m) ==
  LET I == {i \in 1..Len(snap.dailyActivity) :
              snap.dailyActivity[i].k[1] = year /\ snap.dailyActivity[i].k[2] = m}
  IN SetSum([i \in I |-> snap.dailyActivity[i].v], I)

\* C18: the snapshot holds a monthly distribution: 12 buckets by calendar month, each the
\* sum of the event counts of the requested year's dates in that month, and the first
\* bucket of highest count flagged as the most active month.
C18_MonthlyActivity ==
  Done =>
    /\ "monthlyActivity" \in DOMAIN snap
    /\ LET monthly == snap["monthlyActivity"] IN
       /\ Len(monthly.counts) = 12
       /\ \A m \in 1..12 : monthly.counts[m] = MonthSum(m)
       /\ \A m \in 1..12 : monthly.counts[m] <= monthly.counts[monthly.mostActiveMonth + 1]
       /\ \A m \in 1..monthly.mostActiveMonth :
            monthly.counts[m] < monthly.counts[monthly.mostActiveMonth + 1]

\* C26: totalMessages is the sum of the values of dailyActivity and the sum of the seven
\* weekday counts, on the live path and on the cache path.
C26_MessagesSum ==
  Done =>
    /\ snap.totalMessages = SumSeq(MapValues(snap.dailyActivity))
    /\ snap.totalMessages = SumSeq(snap.weekdayCounts)

\* C28: currentStreak is at most maxStreak.
C28_StreakOrder == Done => snap.currentStreak <= snap.maxStreak

\* C29: every date key the collector records for the requested year is kept by the
\* merger: the snapshot's dailyActivity holds every entry of the live map, and
\* totalMessages is the collector's.
C29_FiltersAgree ==
  (Done /\ LivePath) =>
    /\ Range(usage.dailyActivity) \subseteq Range(snap.dailyActivity)
    /\ snap.totalMessages = usage.totalMessages

-----------------------------------------------------------------------------
(* Claims about token figures, checked under Spec *)

SplitSum(p) == p.inputTokens + p.outputTokens + p.cachedInputTokens + p.cacheCreationTokens

\* the cache has a usage record for the model and its fields sum to more than 0
HasRatio(modelId) ==
  /\ MapHas(cache.modelUsage, modelId)
  /\ LET r == MapGet(cache.modelUsage, modelId)
     IN r.inputTokens + r.outputTokens + r.cacheReadInputTokens
          + r.cacheCreationInputTokens > 0

\* C2: a model's four components sum to its aggregate T exactly when it is split by a
\* usage record with a positive field sum, and are (T, 0, 0, 0) without such a record.
C2_ApportionExact ==
  Done =>
    \A i \in 1..Len(snap.modelStats) :
      LET ms == snap.modelStats[i] IN
      /\ ms.count > 0
      /\ HasRatio(ms.id) => SplitSum(ms.split) = ms.count
      /\ ~ HasRatio(ms.id) =>
           ms.split = [inputTokens |-> ms.count, outputTokens |-> 0,
                       cachedInputTokens |-> 0, cacheCreationTokens |-> 0]

\* a model whose rounded components did not sum to T, so that the input one was adjusted
C2_Witness ==
  /\ Done
  /\ \E i \in 1..Len(snap.modelStats) :
       LET ms == snap.modelStats[i] IN
       /\ HasRatio(ms.id)
       /\ LET r == MapGet(cache.modelUsage, ms.id)
              total == r.inputTokens + r.outputTokens + r.cacheReadInputTokens
                         + r.cacheCreationInputTokens
          IN ms.split.inputTokens # RoundDiv(r.inputTokens * ms.count, total)

\* the cache's dailyModelTokens entries dated in the requested year
ModelYearEntries ==
  {i \in 1..Len(cache.dailyModelTokens) :
     cache.dailyModelTokens[i].date # Absent /\ cache.dailyModelTokens[i].date[1][1] = year}

\* per model, the tokens of those entries summed
ModelYearSums ==
  LET models == UNION {MapKeys(cache.dailyModelTokens[i].tokensByModel) : i \in ModelYearEntries}
      of(m) == LET I == {i \in ModelYearEntries :
                           MapHas(cache.dailyModelTokens[i].tokensByModel, m)}
               IN SetSum([i \in I |-> MapGet(cache.dailyModelTokens[i].tokensByModel, m)], I)
  IN {[k |-> m, v |-> of(m)] : m \in models}

\* per model, inputTokens + outputTokens of the cache's usage records, where positive
ModelUsageSums ==
  {[k |-> cache.modelUsage[i].k,
    v |-> cache.modelUsage[i].v.inputTokens + cache.modelUsage[i].v.outputTokens] :
     i \in {j \in 1..Len(cache.modelUsage) :
              cache.modelUsage[j].v.inputTokens + cache.modelUsage[j].v.outputTokens > 0}}

\* C8: the merged per-model map is the live map when it has entries, else the per-model
\* sums of the cache's dailyModelTokens of the requested year, else (only if those are
\* empty) inputTokens + outputTokens of the cache's usage records with a positive sum.
C8_ModelTokenSource ==
  Done =>
    Range(snap.modelTokenTotals) =
      IF Len(usage.modelTokenTotals) > 0 THEN Range(usage.modelTokenTotals)
      ELSE IF ModelYearSums # {} THEN ModelYearSums
      ELSE ModelUsageSums

SumOver(seq, f(_)) == SumSeq([i \in 1..Len(seq) |-> f(seq[i])])

CountOf(ms) == ms.count

InputOf(ms) == ms.split.inputTokens

OutputOf(ms) == ms.split.outputTokens

CacheReadOf(ms) == ms.split.cachedInputTokens

CacheWriteOf(ms) == ms.split.cacheCreationTokens

\* C9: when a token scalar of the live summary is non-zero, the snapshot's five token
\* totals are the live summary's, whatever the cache holds; otherwise they are the sums
\* of the per-model figures.
C9_LiveScalars ==
  Done =>
    IF HasUsageSummaryTokens(usage)
    THEN /\ snap.totalTokens = usage.totalTokens
         /\ snap.totalInputTokens = usage.totalInputTokens
         /\ snap.totalOutputTokens = usage.totalOutputTokens
         /\ snap.totalCacheReadTokens = usage.totalCacheReadTokens
         /\ snap.totalCacheWriteTokens = usage.totalCacheCreationTokens
    ELSE /\ snap.totalTokens = SumOver(snap.modelStats, CountOf)
         /\ snap.totalInputTokens = SumOver(snap.modelStats, InputOf)
         /\ snap.totalOutputTokens = SumOver(snap.modelStats, OutputOf)
         /\ snap.totalCacheReadTokens = SumOver(snap.modelStats, CacheReadOf)
         /\ snap.totalCacheWriteTokens = SumOver(snap.modelStats, CacheWriteOf)

\* live scalars are non-zero while the model set, with its usage records, is the cache's
C9_Witness ==
  /\ Done
  /\ HasUsageSummaryTokens(usage)
  /\ Len(snap.modelStats) > 0
  /\ \E i \in 1..Len(snap.modelStats) : HasRatio(snap.modelStats[i].id)
  /\ SumOver(snap.modelStats, CountOf) # snap.totalTokens

\* C10: totalTokens is the sum of the four token totals in the reducer after every
\* record, and in every snapshot whose figures are the live summary's or are accumulated
\* per model from the cache.
C10_TokenIdentity ==
  /\ acc.totalTokens = acc.totalInputTokens + acc.totalOutputTokens
                         + acc.totalCacheCreationTokens + acc.totalCacheReadTokens
  /\ Done =>
       snap.totalTokens = snap.totalInputTokens + snap.totalOutputTokens
                            + snap.totalCacheReadTokens + snap.totalCacheWriteTokens

\* figures accumulated from the cache for two models, one of them split with rounding drift
C10_Witness ==
  /\ Done
  /\ ~ HasUsageSummaryTokens(usage)
  /\ Len(snap.modelStats) = 2
  /\ snap.totalCacheReadTokens > 0
  /\ \E i \in 1..Len(snap.modelStats) :
       LET ms == snap.modelStats[i] IN
       /\ HasRatio(ms.id)
       /\ LET r == MapGet(cache.modelUsage, ms.id)
              total == r.inputTokens + r.outputTokens + r.cacheReadInputTokens
                         + r.cacheCreationInputTokens
          IN ms.split.inputTokens # RoundDiv(r.inputTokens * ms.count, total)

\* the numerator of a model's percentage of the final total
PercentOf(ms) == Percentage(ms.count, snap.totalTokens).num

\* C11: when totalTokens > 0 the token counts of all models of the merged model set sum
\* to totalTokens, so that their percentages sum to 100; when totalTokens = 0 every model
\* and provider percentage is 0.
C11_PercentagesSum ==
  Done =>
    /\ snap.totalTokens > 0 =>
         /\ SumOver(snap.modelStats, CountOf) = snap.totalTokens
         /\ SumOver(snap.modelStats, PercentOf) = 100 * snap.totalTokens
    /\ snap.totalTokens = 0 =>
         /\ \A i \in 1..Len(snap.topModels) : snap.topModels[i].percentage.num = 0
         /\ \A i \in 1..Len(snap.topProviders) : snap.topProviders[i].percentage.num = 0

\* C25: each of the four components of a model's split is >= 0, and so the snapshot's
\* totalInputTokens, accumulated over the models, is >= 0.
C25_ComponentsNonNegative ==
  Done =>
    /\ \A i \in 1..Len(snap.modelStats) :
         LET part == snap.modelStats[i].split IN
         /\ part.inputTokens >= 0 /\ part.outputTokens >= 0
         /\ part.cachedInputTokens >= 0 /\ part.cacheCreationTokens >= 0
    /\ snap.totalInputTokens >= 0

\* C27: when totalTokens > 0, every entry of topModels and topProviders has a count of
\* at most totalTokens, that is a percentage of at most 100.
C27_CountWithinTotal ==
  (Done /\ snap.totalTokens > 0) =>
    /\ \A i \in 1..Len(snap.topModels) :
         /\ snap.topModels[i].count <= snap.totalTokens
         /\ snap.topModels[i].percentage.num <= 100 * snap.topModels[i].percentage.den
    /\ \A i \in 1..Len(snap.topProviders) :
         /\ snap.topProviders[i].count <= snap.totalTokens
         /\ snap.topProviders[i].percentage.num <= 100 * snap.topProviders[i].percentage.den

-----------------------------------------------------------------------------
(* Claims about the reducer, checked under SpecOverlap *)

RECURSIVE ReduceLines(_, _, _)
\* the reducer run over the lines of one file from the i-th on
ReduceLines(a, lines, i) ==
  IF i > Len(lines) THEN a
  ELSE ReduceLines(ProcessLine(a, lines[i], zone, year), lines, i + 1)

RECURSIVE ReduceFiles(_, _, _)
\* the reducer run over the files of a listing from the i-th on
ReduceFiles(a, listing, i) ==
  IF i > Len(listing) THEN a
  ELSE ReduceFiles(ReduceLines(a, files[listing[i]], 1), listing, i + 1)

\* every record of every file carries a message id and a request id
EveryRecordKeyed ==
  \A f \in 1..Len(files) : \A i \in 1..Len(files[f]) :
    files[f][i].kind = "object" => files[f][i].mid # "" /\ files[f][i].rid # ""

\* the files of the first root are reachable under a second root too
Overlapping == Len(roots) = 2 /\ Range(roots[2]) \subseteq Range(roots[1])

\* C1: when every record carries both identifiers, the summary of a run that reaches the
\* same files under two roots is the summary of a run over those files once.
C1_DedupIdempotent ==
  (pc \in {"merge", "done"} /\ Overlapping /\ EveryRecordKeyed) =>
    usage = Summary(ReduceFiles(InitAcc, roots[1], 1))

\* every file was read twice, and its records carry tokens, cost and sessions
C1_Witness ==
  /\ Done /\ EveryRecordKeyed
  /\ Len(roots) = 2 /\ roots[2] = roots[1]
  /\ usage.totalMessages >= 2
  /\ usage.totalTokens > 0
  /\ usage.totalCostUSD > 0
  /\ usage.totalSessions > 0

\* the line the reducer is about to read, when it is about to read one
Reading == pc = "scan" /\ li >= 1 /\ fi <= Len(ScanOrder) /\ li <= Len(files[ScanOrder[fi]])

NextLine == files[ScanOrder[fi]][li]

\* a line that is not a JSON object, or a record whose timestamp is missing, unparseable
\* or outside the requested year
Rejected(line) ==
  \/ line.kind # "object"
  \/ line.ts.kind # "instant"
  \/ GetFullYear(zone, line.ts.at) # year

\* the accumulators the usage summary is made of: all but the set of keys seen and the
\* prices looked up
Accumulators(a) ==
  [a EXCEPT !.processedHashes = {}, !.pricingCache = <<>>, !.lookups = <<>>]

\* C15: a line that is not valid JSON, or a record with a missing, unparseable or
\* out-of-year timestamp, changes no accumulator of the usage summary, and the scan goes
\* on with the next line.
C15_RejectedLineInert ==
  [][(Reading /\ Rejected(NextLine)) =>
       /\ Accumulators(acc') = Accumulators(acc)
       /\ pc' = "scan" /\ fi' = fi /\ li' = li + 1]_vars

\* a rejected line of the first file was followed by a record that was counted
C15_Witness ==
  /\ pc = "merge"
  /\ Len(files[1]) = 2
  /\ Rejected(files[1][1]) /\ files[1][1].kind # "object"
  /\ ~ Rejected(files[1][2])
  /\ Len(files[2]) = 1 /\ Rejected(files[2][1]) /\ files[2][1].kind = "object"
  /\ usage.totalMessages = 1 /\ usage.totalTokens > 0

\* C20: the identity key of a record is recorded as seen whatever its timestamp, and a
\* record whose key is already seen is discarded whatever its timestamp: a valid in-year
\* record that follows a rejected record of the same key is not counted.
C20_KeyBeforeTimestamp ==
  [][(Reading /\ NextLine.kind = "object" /\ createUniqueHash(NextLine) # Absent) =>
       LET key == createUniqueHash(NextLine)[1] IN
       /\ key \in acc'.processedHashes
       /\ key \in acc.processedHashes => Accumulators(acc') = Accumulators(acc)]_vars

\* the only valid record of the run follows a rejected record of the same key
C20_Witness ==
  /\ pc = "merge"
  /\ roots = << <<1, 2>> >>
  /\ Len(files[1]) = 2 /\ Len(files[2]) = 0
  /\ Rejected(files[1][1]) /\ files[1][1].kind = "object"
  /\ ~ Rejected(files[1][2])
  /\ createUniqueHash(files[1][1]) # Absent
  /\ createUniqueHash(files[1][1]) = createUniqueHash(files[1][2])
  /\ usage.totalMessages = 0 /\ usage.totalTokens = 0

\* a sequence back to front
Reverse(seq) == [i \in 1..Len(seq) |-> seq[Len(seq) + 1 - i]]

\* the totals of a usage summary, with its two maps taken as sets of entries
SummaryTotals(u) ==
  <<u.totalInputTokens, u.totalOutputTokens, u.totalCacheCreationTokens,
    u.totalCacheReadTokens, u.totalTokens, u.totalCostUSD, u.totalMessages,
    u.totalSessions, u.firstTimestamp, Range(u.dailyActivity), Range(u.modelTokenTotals)>>

\* C21: the usage summary is the same whatever the order the files are scanned in: a scan
\* of the same files in the opposite order returns the same totals.
C21_OrderIndependent ==
  pc \in {"merge", "done"} =>
    SummaryTotals(usage) =
      SummaryTotals(Summary(ReduceFiles(InitAcc, Reverse(ScanOrder), 1)))

-----------------------------------------------------------------------------
(* Claims about tokens and cost in the reducer, checked under SpecCost *)

\* the line about to be read is a record the reducer accepts
Accepting ==
  /\ Reading
  /\ NextLine.kind = "object"
  /\ ~ Rejected(NextLine)
  /\ createUniqueHash(NextLine) # Absent => createUniqueHash(NextLine)[1] \notin acc.processedHashes

\* the sum of a record's usage block
UsageTotal(line) ==
  LET u == line.usage[1] IN
  ensureNumber(u.input_tokens) + ensureNumber(u.output_tokens)
    + ensureNumber(u.cache_creation_input_tokens) + ensureNumber(u.cache_read_input_tokens)

\* the token side of the accumulators
TokenSide(a) ==
  <<a.totalInputTokens, a.totalOutputTokens, a.totalCacheCreationTokens,
    a.totalCacheReadTokens, a.totalTokens, a.totalCostUSD, a.modelTokenTotals>>

\* C22: an accepted record whose usage block sums to zero leaves the four token totals,
\* totalTokens, the cost total and the per-model token map, keys included, as they were.
C22_ZeroUsageInert ==
  [][(Accepting /\ NextLine.usage # Absent /\ UsageTotal(NextLine) = 0) =>
       TokenSide(acc') = TokenSide(acc)]_vars

\* what a record is to add to the cost total: its explicit cost, else the estimate for a
\* positive usage block of a model with a price, else nothing
ExpectedCost(line) ==
  IF line.costUSD # Absent THEN line.costUSD[1]
  ELSE IF /\ line.usage # Absent
          /\ UsageTotal(line) > 0
          /\ line.model # Absent
          /\ line.model[1] \in DOMAIN PriceTable
       THEN LET u == line.usage[1] IN
            ensureNumber(u.input_tokens) * PriceTable[line.model[1]].input
              + ensureNumber(u.output_tokens) * PriceTable[line.model[1]].output
              + ensureNumber(u.cache_creation_input_tokens) * PriceTable[line.model[1]].cacheCreate
              + ensureNumber(u.cache_read_input_tokens) * PriceTable[line.model[1]].cacheRead
       ELSE 0

\* C23: each accepted record adds to the cost total its explicit cost when it has one,
\* otherwise the price-table estimate when it has a usage block of positive total and a
\* model whose price resolves, otherwise nothing.
C23_CostOnce ==
  [][Accepting => acc'.totalCostUSD = acc.totalCostUSD + ExpectedCost(NextLine)]_vars

\* a record with an explicit cost and a priced usage block was read after one that was
\* estimated
C23_Witness ==
  /\ pc = "merge"
  /\ Len(files[1]) = 2
  /\ files[1][1].costUSD = Absent /\ ExpectedCost(files[1][1]) > 0
  /\ files[1][2].costUSD # Absent /\ files[1][2].usage # Absent
  /\ UsageTotal(files[1][2]) > 0 /\ files[1][2].model = Present("claude-a")
  /\ usage.totalCostUSD = ExpectedCost(files[1][1]) + files[1][2].costUSD[1]

\* the number of times a model occurs in the calls of the resolver
Lookups(model) == Cardinality({i \in 1..Len(acc.lookups) : acc.lookups[i] = model})

\* C24: in a run the pricing resolver is called at most once for a model, whether its
\* price is known or not: the models it was called for are the keys of the memo, a record
\* of a model in the memo causes no call, and a run starts with an empty memo.
C24_PricingMemo ==
  /\ \A i \in 1..Len(acc.lookups) : Lookups(acc.lookups[i]) = 1
  /\ Range(acc.lookups) = MapKeys(acc.pricingCache)
  /\ (pc \in {"start", "roots"} \/ (pc = "scan" /\ fi = 1 /\ li = 0)) =>
       acc.pricingCache = <<>>

\* two records of a model without a price were estimated, with one call of the resolver
C24_Witness ==
  /\ pc = "merge"
  /\ Len(files[1]) = 2
  /\ \A i \in 1..2 :
       /\ files[1][i].model = Present("gpt-x")
       /\ files[1][i].costUSD = Absent
       /\ files[1][i].usage # Absent /\ UsageTotal(files[1][i]) > 0
  /\ acc.lookups = <<"gpt-x">>
  /\ MapGet(acc.pricingCache, "gpt-x") = Absent

-----------------------------------------------------------------------------
(* Claims about failures and exit codes, checked under SpecFaults *)

\* the files the scan would read if failing paths were skipped: those of the roots that
\* can be listed, less the files that cannot be opened
ReadableFiles ==
  LET CanOpen(f) == f \notin env.unreadable IN
  SelectSeq(Flatten([r \in 1..Len(roots) |->
                       IF r \in env.unlistable THEN <<>> ELSE roots[r]]),
            CanOpen)

\* C14: a log file that cannot be opened and a directory that cannot be listed do not make
\* collectClaudeUsageSummary fail: it returns the summary of the records of the files
\* that can be read.
C14_FileErrorsSkipped ==
  /\ thrown \notin {"open", "scandir"}
  /\ pc \in {"merge", "done"} => usage = Summary(ReduceFiles(InitAcc, ReadableFiles, 1))

\* the cache file exists and holds something other than a JSON object
Malformed ==
  checkClaudeDataExists(dirs) /\ env.cacheFile \in {"garbage", "null", "scalar", "array"}

\* C16: when the cache file exists and its content is not well-formed JSON of an object
\* shape, calculateStats fails with the loader's error and returns no snapshot.
C16_MalformedCacheFails ==
  Malformed =>
    /\ pc # "done"
    /\ pc = "threw" => thrown # ""

\* C17: with no stats cache file, or with no log root, and nothing else failing,
\* calculateStats does not throw; its snapshot is built from the source that is present
\* and is zero-valued and empty when neither is.
C17_MissingSourceNoThrow ==
  ( /\ ~ checkClaudeDataExists(dirs) \/ roots = <<>>
    /\ env.cacheFile = "object"
    /\ env.unreadable = {} /\ env.unlistable = {} ) =>
    /\ thrown = ""
    /\ (Done /\ ~ checkClaudeDataExists(dirs)) =>
         /\ snap.totalMessages = usage.totalMessages
         /\ snap.totalTokens = usage.totalTokens
    /\ (Done /\ roots = <<>>) =>
         /\ snap.totalMessages =
              IF checkClaudeDataExists(dirs) THEN YearFieldSum("messageCount") ELSE 0
         /\ snap.totalTokens =
              IF checkClaudeDataExists(dirs) THEN SumOver(snap.modelStats, CountOf) ELSE 0

\* the run found no data: no data path, or a snapshot without sessions
NoData == ~ checkClaudeDataExists(dirs) \/ (snap # NoSnap /\ snap.totalSessions = 0)

\* the causes of exit code 1 the claim names
NamedFailure ==
  \/ ~ ValidYear(zone, now, year)
  \/ thrown # ""
  \/ imageStarted /\ env.imageFails

\* C19 as stated: whenever the data directory is not found or the snapshot has no
\* session, the run ends with exit code 0 and image generation is never started; exit
\* code 1 occurs only for an invalid year, a thrown calculateStats or a failed image.
C19_ExitCodes ==
  /\ NoData => ~ imageStarted /\ (pc = "exit" => exitCode = Present(0))
  /\ exitCode = Present(1) => NamedFailure

\* C19, amended: once the arguments are parsed and the year is found valid, a run that
\* finds no data path or computes a snapshot without sessions ends with exit code 0 and
\* never starts image generation; exit code 1 occurs only for arguments that do not
\* parse, an invalid year, a thrown calculateStats or a failed image generation.
C19_ExitCodesAmended ==
  /\ (NoData /\ env.args # "unknown" /\ (env.args = "help" \/ ValidYear(zone, now, year))) =>
       ~ imageStarted /\ (pc = "exit" => exitCode = Present(0))
  /\ exitCode = Present(1) => (env.args = "unknown" \/ NamedFailure)

\* a snapshot without sessions was computed and the run ended with code 0, no image started
C19_Witness ==
  /\ pc = "exit"
  /\ snap # NoSnap /\ snap.totalSessions = 0
  /\ env.args = "ok" /\ env.imageFails
  /\ exitCode = Present(0) /\ ~ imageStarted

-----------------------------------------------------------------------------
(* Claim about the directories, checked under SpecPaths *)

\* C30: the base directory the stats cache is loaded from (resolveClaudeDataPath) is one
\* of the base directories whose projects tree is scanned (getClaudeProjectRoots), for
\* every configuration of the override and of the default directories.
C30_SameInstallation ==
  paths.data # Absent => paths.data[1] \in Range(paths.roots)

=============================================================================
